---------------------------- MODULE Spec2Model ----------------------------
(***************************************************************************)
(* A model of the calculator of src/main.py: CalculatorLogic (the          *)
(* expression buffer, the history log, and the operations on them) and     *)
(* the Python expression evaluation that safe_eval delegates to.           *)
(*                                                                         *)
(* Text is modelled as a sequence of one-character strings, so that        *)
(* slicing, concatenation, prefix tests, number formatting and number      *)
(* parsing are computed rather than assumed.                               *)
(***************************************************************************)
EXTENDS Integers, Sequences, FiniteSets, TLC

VARIABLES
    expression,       \* CalculatorLogic.expression
    history,          \* CalculatorLogic.history, oldest record first
    ret,              \* what the last CalculatorLogic call gave its caller
    evals,            \* number of records written in this run (bounds the run)
    display_var,      \* CalculatorApp.display_var
    subdisplay_var,   \* CalculatorApp.subdisplay_var
    history_listbox   \* the rows of CalculatorApp.history_listbox

logicVars == <<expression, history, ret, evals>>
uiVars == <<display_var, subdisplay_var, history_listbox>>
vars == <<expression, history, ret, evals, display_var, subdisplay_var, history_listbox>>

(***************************************************************************)
(* Text helpers.                                                           *)
(***************************************************************************)
Digits == <<"0", "1", "2", "3", "4", "5", "6", "7", "8", "9">>

Letters ==
    {"a", "b", "c", "d", "e", "f", "g", "h", "i", "j", "k", "l", "m",
     "n", "o", "p", "q", "r", "s", "t", "u", "v", "w", "x", "y", "z"}

IsDigit(c) == \E i \in 1..10 : Digits[i] = c

DigitVal(c) == (CHOOSE i \in 1..10 : Digits[i] = c) - 1

IsLetter(c) == c \in Letters

IsIdentChar(c) == IsLetter(c) \/ IsDigit(c) \/ c = "_"

\* s[i], or "" past the end of s
At(s, i) == IF i >= 1 /\ i <= Len(s) THEN s[i] ELSE ""

\* s[i:] in Python's 0-based slicing, for 1-based i
From(s, i) == SubSeq(s, i, Len(s))

StartsWith(s, p) == Len(p) <= Len(s) /\ SubSeq(s, 1, Len(p)) = p

\* the first position at or after i that holds no digit
SkipDigits(s, i) ==
    CHOOSE j \in i..(Len(s) + 1) :
        ~IsDigit(At(s, j)) /\ \A k \in i..(j - 1) : IsDigit(s[k])

\* the first position at or after i that holds no identifier character
SkipIdent(s, i) ==
    CHOOSE j \in i..(Len(s) + 1) :
        ~IsIdentChar(At(s, j)) /\ \A k \in i..(j - 1) : IsIdentChar(s[k])

\* the first position at or after i that holds no space
SkipSpaces(s, i) ==
    CHOOSE j \in i..(Len(s) + 1) :
        At(s, j) # " " /\ \A k \in i..(j - 1) : s[k] = " "

\* the last position that holds no space, 0 when there is none
LastNonSpace(s) ==
    CHOOSE j \in 0..Len(s) :
        At(s, j) # " " /\ \A k \in (j + 1)..Len(s) : s[k] = " "

\* str.strip() on the characters the model knows as whitespace
Strip(s) == SubSeq(s, SkipSpaces(s, 1), LastNonSpace(s))

(***************************************************************************)
(* Python's tokenizer, on the characters a buffer can hold.  A token is    *)
(* [k, s]: k is "num", "name", an operator spelled out, "cmp" (< or >),    *)
(* "bad" (a lexical error, so a SyntaxError) or "unk" (a character or      *)
(* literal form this model does not follow); s is the token's text.        *)
(***************************************************************************)
NumberEnd(s, i) ==
    LET j1 == SkipDigits(s, i)
        j2 == IF At(s, j1) = "." THEN SkipDigits(s, j1 + 1) ELSE j1
        signed == At(s, j2 + 1) \in {"+", "-"} /\ IsDigit(At(s, j2 + 2))
        hasExp == At(s, j2) \in {"e", "E"} /\ (IsDigit(At(s, j2 + 1)) \/ signed)
    IN  IF hasExp THEN SkipDigits(s, IF signed THEN j2 + 2 ELSE j2 + 1) ELSE j2

\* keywords that may follow a number literal without a space between
NumKeywords ==
    {<<"a", "n", "d">>, <<"e", "l", "s", "e">>, <<"f", "o", "r">>, <<"i", "f">>,
     <<"i", "n">>, <<"i", "s">>, <<"n", "o", "t">>, <<"o", "r">>}

\* the token for the number literal s[i..j-1], given what follows it
NumberToken(s, i, j) ==
    LET after == SubSeq(s, j, SkipIdent(s, j) - 1)
        radix == j = i + 1 /\ s[i] = "0" /\ At(s, j) \in {"x", "X", "b", "B", "o", "O"}
    IN  IF after = <<>> THEN [k |-> "num", s |-> SubSeq(s, i, j - 1)]
        ELSE IF \/ after \in NumKeywords
                \/ At(s, j) \in {"_", "j", "J"}
                \/ radix
             THEN [k |-> "unk", s |-> SubSeq(s, i, j - 1)]
             ELSE [k |-> "bad", s |-> SubSeq(s, i, j - 1)]

OpChars == {"*", "/", "%", "+", "-", "(", ")", ",", "."}

\* the token that starts at position i of s (not a space), and where it ends
TokenAt(s, i) ==
    LET c == s[i]
        one(k) == [k |-> k, s |-> <<c>>, next |-> i + 1]
    IN  CASE IsDigit(c) \/ (c = "." /\ IsDigit(At(s, i + 1))) ->
                LET j == NumberEnd(s, i)
                    t == NumberToken(s, i, j)
                IN  [k |-> t.k, s |-> t.s, next |-> j]
          [] IsLetter(c) ->
                LET j == SkipIdent(s, i)
                IN  [k |-> "name", s |-> SubSeq(s, i, j - 1), next |-> j]
          [] c = "*" /\ At(s, i + 1) = "*" ->
                [k |-> "**", s |-> <<"*", "*">>, next |-> i + 2]
          [] c = "/" /\ At(s, i + 1) = "/" ->
                [k |-> "//", s |-> <<"/", "/">>, next |-> i + 2]
          [] c = "." /\ At(s, i + 1) = "." /\ At(s, i + 2) = "." ->
                [k |-> "unk", s |-> <<".", ".", ".">>, next |-> i + 3]
          [] c \in {"<", ">"} -> one("cmp")
          [] OTHER -> IF c \in OpChars THEN one(c) ELSE one("unk")

RECURSIVE Lex(_, _)
\* the token t and the tokens of s after it, none when t is "bad" or "unk"
LexAfter(s, t) ==
    IF t.k \in {"bad", "unk"} THEN <<[k |-> t.k, s |-> t.s]>>
    ELSE <<[k |-> t.k, s |-> t.s]>> \o Lex(s, t.next)

\* the tokens of s from position i on, up to the first one that is "bad"
\* or "unk"
Lex(s, i) ==
    IF SkipSpaces(s, i) > Len(s) THEN <<>>
    ELSE LexAfter(s, TokenAt(s, SkipSpaces(s, i)))

\* the token at position p, or an end marker
Tok(ts, p) == IF p <= Len(ts) THEN ts[p] ELSE [k |-> "end", s |-> <<>>]

(***************************************************************************)
(* Python values.  An int is [t |-> "int", n]; a float that is a dyadic    *)
(* rational is [t |-> "float", n, d, nz] (n/d in lowest terms, d a power   *)
(* of two, nz for a negative zero); the other floats are "inf", "nan" and  *)
(* the two named constants ("fconst").  "huge" is an int of more decimal   *)
(* digits than str() converts.  Numbers outside NumLimit and MaxDen are    *)
(* not followed: an operation that would produce one yields Unmod.         *)
(***************************************************************************)
NumLimit == 1000000

MaxDen == 256

\* sys.int_info.default_max_str_digits, the limit str() applies at main.py:101
MaxStrDigits == 4300

\* the least k with 2^k >= 10^MaxStrDigits
HugeBits == 14285

Big == NumLimit * MaxDen

Abs(x) == IF x < 0 THEN -x ELSE x

\* whether a * b can be computed within the model's range
Fits(a, b) == a = 0 \/ b = 0 \/ Abs(a) <= Big \div Abs(b)

\* floor(a / b) for b # 0, as Python's // on ints
FloorDiv(a, b) ==
    LET q == Abs(a) \div Abs(b)
        exact == Abs(a) % Abs(b) = 0
    IN  IF (a < 0) = (b < 0) \/ a = 0 THEN q
        ELSE IF exact THEN -q ELSE -q - 1

\* the exponents of the powers of two up to Big
Pow2Exps == 0..28

IsPow2(d) == \E k \in Pow2Exps : 2^k = d

\* floor(log2(n)) for 1 <= n <= Big
Log2(n) == IF n <= 1 THEN 0 ELSE CHOOSE k \in Pow2Exps : 2^k <= n /\ n < 2^(k + 1)

Pow5(k) == 5^k

Pow10(k) == 10^k

\* the greatest power of two that divides d > 0
TwoPart(d) == 2^(CHOOSE k \in Pow2Exps : d % 2^k = 0 /\ (d \div 2^k) % 2 = 1)

PyInt(n) == [t |-> "int", n |-> n]

PyFloat(n, d, nz) == [t |-> "float", n |-> n, d |-> d, nz |-> nz]

Inf(neg) == [t |-> "inf", neg |-> neg]

NaN == [t |-> "nan"]

FConst(name, neg) == [t |-> "fconst", name |-> name, neg |-> neg]

Huge == [t |-> "huge"]

Func(name) == [t |-> "func", name |-> name]

Tuple(els) == [t |-> "tuple", els |-> els]

\* The outcome of evaluating (part of) an expression: a value, one of the
\* two kinds of exception safe_eval tells apart, a SyntaxError (which
\* pre-empts every run-time outcome), or Unmod.
Val(v) == [st |-> "val", v |-> v]

ZeroDiv == [st |-> "zerodiv"]

Err == [st |-> "error"]

Syntax == [st |-> "syntax"]

Unmod == [st |-> "unmod"]

IsNumber(v) == v.t \in {"int", "float", "inf", "nan", "fconst", "huge"}

IsExact(v) == v.t \in {"int", "float"}

IsZero(v) == IsExact(v) /\ v.n = 0

\* the denominator of an exact number
Den(v) == IF v.t = "float" THEN v.d ELSE 1

\* whether an exact number carries a minus sign (a negative zero does)
SignNeg(v) == v.n < 0 \/ (v.t = "float" /\ v.nz)

\* the float n/d (d > 0, any n), if the model follows it: n/d in lowest
\* terms must have a power of two as its denominator
MkFloat(n, d, zeroNeg) ==
    LET odd == d \div TwoPart(d)
        m == Abs(n) \div odd
        g == IF TwoPart(m) < TwoPart(d) THEN TwoPart(m) ELSE TwoPart(d)
        rn == (IF n < 0 THEN -1 ELSE 1) * (m \div g)
        rd == TwoPart(d) \div g
    IN  IF n = 0 THEN Val(PyFloat(0, 1, zeroNeg))
        ELSE IF Abs(n) % odd = 0 /\ rd <= MaxDen /\ Abs(rn) \div rd <= NumLimit
             THEN Val(PyFloat(rn, rd, FALSE))
             ELSE Unmod

MkInt(n) == IF Abs(n) <= NumLimit THEN Val(PyInt(n)) ELSE Unmod

(***************************************************************************)
(* Number literals and str().                                              *)
(***************************************************************************)
\* ds without its leading zeros
StripZeros(ds) ==
    SubSeq(ds,
           CHOOSE j \in 1..(Len(ds) + 1) :
               At(ds, j) # "0" /\ \A k \in 1..(j - 1) : ds[k] = "0",
           Len(ds))

\* the most significant digits a number literal may have in this model
MaxDigits == 7

RECURSIVE NatOfDigits(_)
\* the number a digit string denotes
NatOfDigits(ds) ==
    IF Len(ds) = 0 THEN 0
    ELSE IF Len(ds) = 1 THEN DigitVal(ds[1])
    ELSE NatOfDigits(SubSeq(ds, 1, Len(ds) \div 2)) * 10^(Len(ds) - Len(ds) \div 2)
         + NatOfDigits(SubSeq(ds, Len(ds) \div 2 + 1, Len(ds)))

\* the number a digit string denotes, or -1 when it has more significant
\* digits than the model follows
NatOf(ds) ==
    IF Len(StripZeros(ds)) > MaxDigits THEN -1 ELSE NatOfDigits(StripZeros(ds))

\* the number of decimal digits of n, for 0 <= n < 10^9
NumDigits(n) == CHOOSE k \in 1..9 : (k = 1 \/ 10^(k - 1) <= n) /\ n < 10^k

\* the decimal digits of n >= 0
DigitsOf(n) ==
    [i \in 1..NumDigits(n) |-> Digits[((n \div 10^(NumDigits(n) - i)) % 10) + 1]]

\* ds with zeros before it to make k digits
ZeroPad(ds, k) ==
    IF Len(ds) >= k THEN ds
    ELSE [i \in 1..k |-> IF i <= k - Len(ds) THEN "0" ELSE ds[i - (k - Len(ds))]]

\* the least decimal exponent at which a float literal overflows to inf
InfExp == 309

\* the value of the mantissa m scaled by 10^x, as a float literal denotes it
ScaledFloat(m, x) ==
    IF m < 0 THEN Unmod
    ELSE IF m = 0 THEN Val(PyFloat(0, 1, FALSE))
    ELSE IF x >= 0 THEN
        IF Len(DigitsOf(m)) + x > InfExp THEN Val(Inf(FALSE))
        ELSE IF x <= 6 /\ Fits(m, Pow10(x)) THEN MkFloat(m * Pow10(x), 1, FALSE)
        ELSE Unmod
    ELSE IF -x <= 8 THEN MkFloat(m, Pow10(-x), FALSE)
    ELSE Unmod

\* the parts of the text of a float: digits before the point, digits after
\* it, and the exponent (0 when there is none, -1 when it is not followed)
FloatParts(s) ==
    LET j1 == SkipDigits(s, 1)
        j2 == IF At(s, j1) = "." THEN SkipDigits(s, j1 + 1) ELSE j1
        hasExp == j2 <= Len(s)
        eneg == At(s, j2 + 1) = "-"
        e0 == IF At(s, j2 + 1) \in {"+", "-"} THEN j2 + 2 ELSE j2 + 1
        eabs == IF hasExp THEN NatOf(From(s, e0)) ELSE 0
    IN  [ip |-> SubSeq(s, 1, j1 - 1),
         fp |-> SubSeq(s, j1 + 1, j2 - 1),
         isFloat |-> j1 <= Len(s),
         expOk |-> eabs >= 0,
         exp |-> IF eneg THEN -eabs ELSE eabs]

\* the value of a number token's text
Literal(s) ==
    LET p == FloatParts(s)
    IN  IF ~p.isFloat THEN
            IF Len(s) > 1 /\ Head(s) = "0" /\ StripZeros(s) # <<>> THEN Syntax
            ELSE IF NatOf(s) < 0 THEN Unmod
            ELSE MkInt(NatOf(s))
        ELSE IF ~p.expOk THEN Unmod
        ELSE ScaledFloat(NatOf(p.ip \o p.fp), p.exp - Len(p.fp))

PiText == <<"3", ".", "1", "4", "1", "5", "9", "2", "6", "5", "3", "5", "8", "9", "7", "9", "3">>

EText == <<"2", ".", "7", "1", "8", "2", "8", "1", "8", "2", "8", "4", "5", "9", "0", "4", "5">>

FuncPrefix == <<"<", "b", "u", "i", "l", "t", "-", "i", "n", " ", "f", "u", "n", "c", "t", "i", "o", "n", " ">>

\* whether str(v) raises ValueError: an int above the digit limit, or a
\* tuple holding one
RECURSIVE StrRaises(_)
StrRaises(v) ==
    \/ v.t = "huge"
    \/ v.t = "tuple" /\ \E i \in 1..Len(v.els) : StrRaises(v.els[i])

RECURSIVE Str(_)
\* str(v), for a value on which it does not raise
Str(v) ==
    LET sign == IF v.t \in {"int", "float"} /\ SignNeg(v) THEN <<"-">>
                ELSE IF v.t \in {"inf", "fconst"} /\ v.neg THEN <<"-">>
                ELSE <<>>
        JoinEls[i \in 1..Len(v.els)] ==
            IF i = 1 THEN Str(v.els[1]) ELSE JoinEls[i - 1] \o <<",", " ">> \o Str(v.els[i])
    IN  CASE v.t = "int" -> sign \o DigitsOf(Abs(v.n))
          [] v.t = "float" ->
                LET k == Log2(v.d)
                    frac == IF v.d = 1 THEN <<"0">>
                            ELSE ZeroPad(DigitsOf((Abs(v.n) % v.d) * Pow5(k)), k)
                IN  sign \o DigitsOf(Abs(v.n) \div v.d) \o <<".">> \o frac
          [] v.t = "inf" -> sign \o <<"i", "n", "f">>
          [] v.t = "nan" -> <<"n", "a", "n">>
          [] v.t = "fconst" -> sign \o (IF v.name = "pi" THEN PiText ELSE EText)
          [] v.t = "func" -> FuncPrefix \o v.name \o <<">">>
          [] v.t = "tuple" ->
                IF Len(v.els) = 0 THEN <<"(", ")">>
                ELSE IF Len(v.els) = 1 THEN <<"(">> \o Str(v.els[1]) \o <<",", ")">>
                ELSE <<"(">> \o JoinEls[Len(v.els)] \o <<")">>

(***************************************************************************)
(* Python arithmetic on the values above.                                  *)
(***************************************************************************)
MaxTuple == 4

\* an exact result n/d: an int when both operands were ints, else a float
MkNumber(isFloat, n, d, zeroNeg) ==
    IF isFloat THEN MkFloat(n, d, zeroNeg) ELSE MkInt(n)

\* a * b for a, b >= 0, or -1 once it passes Big or a factor already did
SatMul(a, b) == IF a < 0 \/ b < 0 \/ ~Fits(a, b) THEN -1 ELSE a * b

RECURSIVE PowNat(_, _)
\* b^e for b >= 2, e >= 0, or -1 once it passes Big
PowNat(b, e) ==
    IF e = 0 THEN 1
    ELSE IF e > 28 THEN -1
    ELSE IF e % 2 = 0 THEN SatMul(PowNat(b, e \div 2), PowNat(b, e \div 2))
    ELSE SatMul(b, SatMul(PowNat(b, e \div 2), PowNat(b, e \div 2)))

\* |b|^e for e >= 0, or -1 once it passes Big
PowAbs(b, e) ==
    IF e = 0 \/ Abs(b) = 1 THEN 1
    ELSE IF b = 0 THEN 0
    ELSE PowNat(Abs(b), e)

\* a ** b for exact a, b with b a whole number e, and not 0 ** negative
PowWhole(a, b, e) ==
    LET isFloat == a.t = "float" \/ b.t = "float" \/ e < 0
        negative == a.n < 0 /\ Abs(e) % 2 = 1
        pn == PowAbs(a.n, Abs(e))
        pd == PowAbs(Den(a), Abs(e))
        zeroNeg == SignNeg(a) /\ Abs(e) % 2 = 1
        signed(x) == IF negative THEN -x ELSE x
    IN  IF pn < 0 \/ pd < 0 THEN
            IF ~isFloat /\ Fits(Log2(Abs(a.n)), e) /\ Log2(Abs(a.n)) * e >= HugeBits
            THEN Val(Huge)
            ELSE Unmod
        ELSE IF e >= 0 THEN MkNumber(isFloat, signed(pn), pd, zeroNeg)
        ELSE MkFloat(signed(pd), pn, FALSE)

\* a op b for exact numbers a and b
ExactOp(op, a, b) ==
    LET isFloat == a.t = "float" \/ b.t = "float"
        n1 == a.n
        d1 == Den(a)
        n2 == b.n
        d2 == Den(b)
        cross == Fits(n1, d2) /\ Fits(n2, d1) /\ Fits(d1, d2)
        differ == SignNeg(a) # SignNeg(b)
    IN  CASE op = "+" ->
                IF ~cross THEN Unmod
                ELSE MkNumber(isFloat, n1 * d2 + n2 * d1, d1 * d2,
                              SignNeg(a) /\ SignNeg(b))
          [] op = "-" ->
                IF ~cross THEN Unmod
                ELSE MkNumber(isFloat, n1 * d2 - n2 * d1, d1 * d2,
                              SignNeg(a) /\ ~SignNeg(b))
          [] op = "*" ->
                IF ~(Fits(n1, n2) /\ Fits(d1, d2)) THEN Unmod
                ELSE MkNumber(isFloat, n1 * n2, d1 * d2, differ)
          [] op = "/" ->
                IF n2 = 0 THEN ZeroDiv
                ELSE IF ~cross THEN Unmod
                ELSE MkFloat((IF n2 < 0 THEN -1 ELSE 1) * n1 * d2, d1 * Abs(n2), differ)
          [] op = "//" ->
                IF n2 = 0 THEN ZeroDiv
                ELSE IF ~cross THEN Unmod
                ELSE MkNumber(isFloat, FloorDiv(n1 * d2, n2 * d1), 1, differ)
          [] op = "%" ->
                IF n2 = 0 THEN ZeroDiv
                ELSE IF ~cross THEN Unmod
                ELSE LET q == FloorDiv(n1 * d2, n2 * d1)
                     IN  IF ~Fits(q, n2 * d1) THEN Unmod
                         ELSE MkNumber(isFloat, n1 * d2 - q * n2 * d1, d1 * d2, SignNeg(b))
          [] op = "**" ->
                IF n1 = 0 /\ n2 < 0 THEN ZeroDiv
                ELSE IF d2 # 1 THEN Unmod
                ELSE PowWhole(a, b, n2)

\* els * n for a tuple's elements els
Repeat(els, n) ==
    IF n <= 0 \/ els = <<>> THEN <<>>
    ELSE [i \in 1..(Len(els) * n) |-> els[((i - 1) % Len(els)) + 1]]

\* a op b, after both operands have been evaluated
BinOp(op, a, b) ==
    IF IsNumber(a) /\ IsNumber(b) THEN
        IF IsExact(a) /\ IsExact(b) THEN ExactOp(op, a, b)
        ELSE IF op \in {"/", "//", "%"} /\ IsZero(b) /\ (a.t # "huge" \/ b.t = "int")
             THEN ZeroDiv
             ELSE Unmod
    ELSE IF op = "+" /\ a.t = "tuple" /\ b.t = "tuple" THEN
        IF Len(a.els) + Len(b.els) <= MaxTuple THEN Val(Tuple(a.els \o b.els)) ELSE Unmod
    ELSE IF op = "*" /\ a.t = "tuple" /\ b.t = "int" THEN
        IF Fits(Len(a.els), b.n) /\ Len(a.els) * b.n <= MaxTuple
        THEN Val(Tuple(Repeat(a.els, b.n))) ELSE Unmod
    ELSE IF op = "*" /\ a.t = "int" /\ b.t = "tuple" THEN
        IF Fits(Len(b.els), a.n) /\ Len(b.els) * a.n <= MaxTuple
        THEN Val(Tuple(Repeat(b.els, a.n))) ELSE Unmod
    ELSE IF op = "*" /\ "huge" \in {a.t, b.t} /\ "tuple" \in {a.t, b.t} THEN Unmod
    ELSE Err

\* -v or +v
UnaryOp(op, v) ==
    IF ~IsNumber(v) THEN Err
    ELSE IF op = "+" THEN Val(v)
    ELSE CASE v.t = "int" -> Val(PyInt(-v.n))
           [] v.t = "float" -> Val(PyFloat(-v.n, v.d, v.n = 0 /\ ~v.nz))
           [] v.t = "inf" -> Val(Inf(~v.neg))
           [] v.t = "nan" -> Val(NaN)
           [] v.t = "fconst" -> Val(FConst(v.name, ~v.neg))
           [] v.t = "huge" -> Val(Huge)

(***************************************************************************)
(* The namespace safe_eval hands to eval, and calls of its functions.      *)
(***************************************************************************)
\* the names taken from math (main.py:68-86) that are functions
MathFuncs ==
    {<<"s", "i", "n">>, <<"c", "o", "s">>, <<"t", "a", "n">>,
     <<"s", "q", "r", "t">>, <<"l", "o", "g">>,
     <<"l", "o", "g", "1", "0">>, <<"e", "x", "p">>,
     <<"f", "a", "b", "s">>, <<"f", "l", "o", "o", "r">>,
     <<"c", "e", "i", "l">>,
     <<"f", "a", "c", "t", "o", "r", "i", "a", "l">>, <<"p", "o", "w">>}

\* the builtins added at main.py:87
BuiltinFuncs == {<<"a", "b", "s">>, <<"r", "o", "u", "n", "d">>}

\* the names taken from math that are constants
ConstNames == {<<"p", "i">>, <<"e">>}

AllowedNames == MathFuncs \cup BuiltinFuncs \cup ConstNames

Keywords ==
    {<<"F", "a", "l", "s", "e">>, <<"N", "o", "n", "e">>,
     <<"T", "r", "u", "e">>, <<"a", "n", "d">>, <<"a", "s">>,
     <<"a", "s", "s", "e", "r", "t">>, <<"a", "s", "y", "n", "c">>,
     <<"a", "w", "a", "i", "t">>, <<"b", "r", "e", "a", "k">>,
     <<"c", "l", "a", "s", "s">>,
     <<"c", "o", "n", "t", "i", "n", "u", "e">>, <<"d", "e", "f">>,
     <<"d", "e", "l">>, <<"e", "l", "i", "f">>, <<"e", "l", "s", "e">>,
     <<"e", "x", "c", "e", "p", "t">>,
     <<"f", "i", "n", "a", "l", "l", "y">>, <<"f", "o", "r">>,
     <<"f", "r", "o", "m">>, <<"g", "l", "o", "b", "a", "l">>,
     <<"i", "f">>, <<"i", "m", "p", "o", "r", "t">>, <<"i", "n">>,
     <<"i", "s">>, <<"l", "a", "m", "b", "d", "a">>,
     <<"n", "o", "n", "l", "o", "c", "a", "l">>, <<"n", "o", "t">>,
     <<"o", "r">>, <<"p", "a", "s", "s">>, <<"r", "a", "i", "s", "e">>,
     <<"r", "e", "t", "u", "r", "n">>, <<"t", "r", "y">>,
     <<"w", "h", "i", "l", "e">>, <<"w", "i", "t", "h">>,
     <<"y", "i", "e", "l", "d">>}

\* the value a name evaluates to: eval has no builtins to fall back on
Lookup(name) ==
    IF name \in Keywords THEN Unmod
    ELSE IF name = <<"p", "i">> THEN Val(FConst("pi", FALSE))
    ELSE IF name = <<"e">> THEN Val(FConst("e", FALSE))
    ELSE IF name \in AllowedNames THEN Val(Func(name))
    ELSE Err

\* the numbers of arguments a function of the namespace accepts
Arity(name) ==
    IF name \in {<<"l", "o", "g">>, <<"r", "o", "u", "n", "d">>} THEN {1, 2}
    ELSE IF name = <<"p", "o", "w">> THEN {2}
    ELSE {1}

IsSquare(n) == n <= 10000 /\ \E r \in 0..100 : r * r = n

Root(n) == CHOOSE r \in 0..100 : r * r = n

RECURSIVE Product(_, _)
\* lo * (lo + 1) * ... * hi
Product(lo, hi) ==
    IF lo > hi THEN 1
    ELSE IF lo = hi THEN lo
    ELSE Product(lo, (lo + hi) \div 2) * Product((lo + hi) \div 2 + 1, hi)

Factorial(n) == Product(1, n)

\* f(x) for a one-argument call with an exact number x
Call1(name, x) ==
    LET zero == Val(PyFloat(0, 1, SignNeg(x)))
        one == Val(PyFloat(1, 1, FALSE))
        d == Den(x)
        fl == FloorDiv(x.n, d)
        half == FloorDiv(2 * x.n + d, 2 * d)
    IN  CASE name = <<"s", "q", "r", "t">> ->
                IF x.n < 0 THEN Err
                ELSE IF x.n = 0 THEN zero
                ELSE IF IsSquare(x.n) /\ IsSquare(d) THEN MkFloat(Root(x.n), Root(d), FALSE)
                ELSE Unmod
          [] name \in {<<"s", "i", "n">>, <<"t", "a", "n">>} -> IF x.n = 0 THEN zero ELSE Unmod
          [] name \in {<<"c", "o", "s">>, <<"e", "x", "p">>} -> IF x.n = 0 THEN one ELSE Unmod
          [] name = <<"l", "o", "g">> ->
                IF x.n <= 0 THEN Err
                ELSE IF x.n = 1 /\ d = 1 THEN Val(PyFloat(0, 1, FALSE))
                ELSE Unmod
          [] name = <<"l", "o", "g", "1", "0">> ->
                IF x.n <= 0 THEN Err
                ELSE IF d = 1 /\ x.n \in {1, 10, 100}
                     THEN Val(PyFloat(Len(DigitsOf(x.n)) - 1, 1, FALSE))
                     ELSE Unmod
          [] name = <<"f", "a", "b", "s">> -> Val(PyFloat(Abs(x.n), d, FALSE))
          [] name = <<"f", "l", "o", "o", "r">> -> MkInt(fl)
          [] name = <<"c", "e", "i", "l">> -> MkInt(IF x.n % d = 0 THEN fl ELSE fl + 1)
          [] name = <<"f", "a", "c", "t", "o", "r", "i", "a", "l">> ->
                IF x.t = "float" \/ x.n < 0 THEN Err
                ELSE IF x.n <= 9 THEN Val(PyInt(Factorial(x.n)))
                ELSE Unmod
          [] name = <<"a", "b", "s">> ->
                IF x.t = "int" THEN Val(PyInt(Abs(x.n)))
                ELSE Val(PyFloat(Abs(x.n), d, FALSE))
          [] name = <<"r", "o", "u", "n", "d">> ->
                IF x.t = "int" THEN Val(x)
                ELSE IF (2 * x.n + d) % (2 * d) = 0 /\ half % 2 = 1 THEN MkInt(half - 1)
                ELSE MkInt(half)
          [] OTHER -> Unmod

\* f(args), after f and the arguments have been evaluated
Call(f, args) ==
    IF f.t # "func" THEN Err
    ELSE IF Len(args) \notin Arity(f.name) THEN Err
    ELSE IF \E i \in 1..Len(args) : ~IsNumber(args[i]) THEN Err
    ELSE IF Len(args) = 1 /\ IsExact(args[1]) THEN Call1(f.name, args[1])
    ELSE Unmod

(***************************************************************************)
(* Python's expression grammar and evaluation order.  The tokens are       *)
(* checked for forms that no expression holds, atoms are evaluated, and    *)
(* the innermost parentheses are evaluated first, each to one operand.  An *)
(* operand carries its outcome: a run-time exception does not stop the     *)
(* evaluation of the rest, since a syntax error anywhere pre-empts it; of  *)
(* two run-time exceptions the one Python reaches first wins: operands     *)
(* left to right, then the operation.                                      *)
(***************************************************************************)
Aborts(o) == o.st \in {"syntax", "unmod"}

Raises(o) == o.st \in {"zerodiv", "error"}

\* the outcome of a binary operation on two evaluated operands
Binary(op, l, r) ==
    IF Aborts(l) THEN l
    ELSE IF Aborts(r) THEN r
    ELSE IF Raises(l) THEN l
    ELSE IF Raises(r) THEN r
    ELSE BinOp(op, l.v, r.v)

\* the outcome of a call: the callee, then the arguments (a tuple outcome)
Apply(f, args) ==
    IF Aborts(f) THEN f
    ELSE IF Aborts(args) THEN args
    ELSE IF Raises(f) THEN f
    ELSE IF Raises(args) THEN args
    ELSE Call(f.v, args.v.els)

Min(S) == CHOOSE x \in S : \A y \in S : x <= y

Max(S) == CHOOSE x \in S : \A y \in S : x >= y

\* whether the token before position i ends an operand
AfterOperand(ts, i) == i > 1 /\ ts[i - 1].k \in {"num", "name", ")"}

\* a token as an item of the expression: an atom becomes an operand "val"
\* with the outcome of evaluating it
Item(t) ==
    CASE t.k = "num" -> [k |-> "val", o |-> Literal(t.s)]
      [] t.k = "name" -> [k |-> "val", o |-> Lookup(t.s)]
      [] OTHER -> [k |-> t.k, o |-> Val(NaN)]

\* a token that no expression holds where it stands; it is the item of ts[i]
Misplaced(ts, i, it) ==
    \/ ts[i].k = "bad"
    \/ ts[i].k = "cmp" /\ ~AfterOperand(ts, i)
    \/ ts[i].k = "." /\ ~(AfterOperand(ts, i) /\ Tok(ts, i + 1).k \in {"name", "unk"})
    \/ it.o = Syntax

\* a token of a form this model does not follow
NotFollowed(ts, i, it) ==
    \/ ts[i].k \in {"unk", "cmp", "."}
    \/ it.o = Unmod

\* the items F with F[i..j] replaced by one operand of outcome o
Splice(F, i, j, o) ==
    SubSeq(F, 1, i - 1) \o <<[k |-> "val", o |-> o]>> \o SubSeq(F, j + 1, Len(F))

\* whether position i of F is one where an operand is expected
Prefix(F, i) == i = 1 \/ F[i - 1].k # "val"

\* the first operand of F after position i
NextVal(F, i) == Min({j \in (i + 1)..Len(F) : F[j].k = "val"})

\* whether the items F, free of commas and parentheses, make an expression:
\* operands and binary operators in turn, with signs before operands
WellFormed(F) ==
    /\ F # <<>>
    /\ F[Len(F)].k = "val"
    /\ \A i \in 1..Len(F) :
          IF F[i].k = "val" THEN Prefix(F, i)
          ELSE /\ F[i].k \in {"+", "-", "*", "/", "//", "%", "**"}
               /\ Prefix(F, i) => F[i].k \in {"+", "-"}

\* the signs F[i..j-1] applied to the operand outcome o
Signed(F, i, j, o) ==
    IF o.st # "val" \/ i = j THEN o
    ELSE IF ~IsNumber(o.v) THEN Err
    ELSE IF Cardinality({k \in i..(j - 1) : F[k].k = "-"}) % 2 = 1
         THEN UnaryOp("-", o.v)
         ELSE UnaryOp("+", o.v)

RECURSIVE EvalLeftToRight(_)
\* (a variant for comparison: the operators applied from the left, whatever
\* they are)
EvalLeftToRight(F) ==
    IF Len(F) = 1 THEN F[1].o
    ELSE IF F[1].k # "val" \/ F[3].k # "val" THEN Unmod
    ELSE EvalLeftToRight(Splice(F, 1, 3, Binary(F[2].k, F[1].o, F[3].o)))

RECURSIVE EvalFlat(_)
\* the outcome of a well-formed F: the last power first, with the signs of
\* its exponent (-2**2 is -(2**2), 2**-1 is 2**(-1)); then the signs; then
\* *, /, // and % from the left; then + and - from the left
EvalFlat(F) ==
    CASE Len(F) = 1 -> F[1].o
      [] Len(F) > 1 /\ \E i \in 1..Len(F) : F[i].k = "**" ->
            LET i == Max({x \in 1..Len(F) : F[x].k = "**"})
                j == NextVal(F, i)
            IN  EvalFlat(Splice(F, i - 1, j,
                    Binary("**", F[i - 1].o, Signed(F, i + 1, j, F[j].o))))
      [] Len(F) > 1 /\ (\A i \in 1..Len(F) : F[i].k # "**")
                    /\ \E i \in 1..Len(F) : F[i].k # "val" /\ Prefix(F, i) ->
            LET i == Min({x \in 1..Len(F) : F[x].k # "val" /\ Prefix(F, x)})
                j == NextVal(F, i)
            IN  EvalFlat(Splice(F, i, j, Signed(F, i, j, F[j].o)))
      [] OTHER ->
            LET terms == {x \in 1..Len(F) : F[x].k \in {"*", "/", "//", "%"}}
                i == IF terms # {} THEN Min(terms) ELSE 2
            IN  EvalFlat(Splice(F, i - 1, i + 1, Binary(F[i].k, F[i - 1].o, F[i + 1].o)))

\* the c-th of the parts of F that commas separate
Part(F, c) ==
    LET commas == {i \in 1..Len(F) : F[i].k = ","}
        before == IF c = 1 THEN 0
                  ELSE CHOOSE i \in commas : Cardinality({x \in commas : x < i}) = c - 2
        after == IF c > Cardinality(commas) THEN Len(F) + 1
                 ELSE CHOOSE i \in commas : Cardinality({x \in commas : x < i}) = c - 1
    IN  SubSeq(F, before + 1, after - 1)

\* the outcome of one element g.  A starred element is not followed (star
\* says whether one may stand there).
Element(g, star) ==
    IF g = <<>> THEN Syntax
    ELSE IF g[1].k \in {"*", "**"} THEN (IF star THEN Unmod ELSE Syntax)
    ELSE IF ~WellFormed(g) THEN Syntax
    ELSE EvalFlat(g)

\* the outcome of the tuple of the elements whose outcomes are outs
Tupled(outs) ==
    IF \E c \in 1..Len(outs) : outs[c] = Syntax THEN Syntax
    ELSE IF Len(outs) > MaxTuple \/ \E c \in 1..Len(outs) : outs[c] = Unmod THEN Unmod
    ELSE IF \E c \in 1..Len(outs) : Raises(outs[c])
         THEN outs[Min({c \in 1..Len(outs) : Raises(outs[c])})]
         ELSE Val(Tuple([c \in 1..Len(outs) |-> outs[c].v]))

\* the number of elements of F: a comma at the end separates nothing
Count(F) ==
    IF F # <<>> /\ F[Len(F)].k = "," /\ Len(F) > 1
    THEN Cardinality({i \in 1..Len(F) : F[i].k = ","})
    ELSE Cardinality({i \in 1..Len(F) : F[i].k = ","}) + 1

\* the elements of F, which commas separate: [o, comma] with o the outcome
\* of the tuple of the elements and comma whether a comma was written
EvalElems(F, star) ==
    [o |-> Tupled([c \in 1..Count(F) |-> Element(Part(F, c), star)]),
     comma |-> \E i \in 1..Len(F) : F[i].k = ","]

\* what a parenthesised or top-level list of elements denotes: its only
\* element when no comma was written, else the tuple
Grouped(e) ==
    IF e.o.st = "val" /\ ~e.comma THEN Val(e.o.v.els[1]) ELSE e.o

\* the elements between the parentheses at i and j
Parenthesised(F, i, j) ==
    IF j = i + 1 THEN [o |-> Val(Tuple(<<>>)), comma |-> TRUE]
    ELSE EvalElems(SubSeq(F, i + 1, j - 1), TRUE)

RECURSIVE EvalGroups(_)
\* F with its parentheses at i and j, which hold the elements e, evaluated:
\* after an operand they are a call of it, else a group
Closed(F, i, j, e) ==
    IF Aborts(e.o) THEN e.o
    ELSE IF i > 1 /\ F[i - 1].k = "val"
         THEN EvalGroups(Splice(F, i - 1, j, Apply(F[i - 1].o, e.o)))
         ELSE EvalGroups(Splice(F, i, j, Grouped(e)))

\* F with its parentheses at i and j evaluated
Close(F, i, j) == Closed(F, i, j, Parenthesised(F, i, j))

\* the outcome of the items F: the first closing parenthesis and the last
\* opening one before it hold no other
EvalGroups(F) ==
    CASE \A x \in 1..Len(F) : F[x].k # ")" ->
            IF \E x \in 1..Len(F) : F[x].k = "(" THEN Syntax
            ELSE Grouped(EvalElems(F, FALSE))
      [] \E x \in 1..Len(F) : F[x].k = ")" /\ \A y \in 1..(x - 1) : F[y].k \notin {"(", ")"} ->
            Syntax
      [] OTHER ->
            Close(F,
                  Max({x \in 1..Len(F) : F[x].k = "(" /\ \A y \in 1..x : F[y].k # ")"}),
                  Min({x \in 1..Len(F) : F[x].k = ")"}))

\* the outcome of the tokens ts, whose items are items
Evaluated(ts, items) ==
    IF \E i \in 1..Len(ts) : Misplaced(ts, i, items[i]) THEN Syntax
    ELSE IF \E i \in 1..Len(ts) : NotFollowed(ts, i, items[i]) THEN Unmod
    ELSE EvalGroups(items)

\* the items of the tokens ts
Items(ts) == [i \in 1..Len(ts) |-> Item(ts[i])]

\* the outcome of the tokens ts
EvalTokens(ts) == Evaluated(ts, Items(ts))

\* eval(expr, {"__builtins__": {}}, allowed_names): the outcome of
\* evaluating the text expr
PyEval(expr) == EvalTokens(Lex(expr, 1))

(***************************************************************************)
(* CalculatorLogic (main.py:13-111).                                       *)
(***************************************************************************)
\* the characters of the five button glyphs of append_token's mapping, which
\* a string of this notation cannot hold: each stands as one character
Times == "U+00D7"

Divide == "U+00F7"

PiSign == "U+03C0"

RootSign == "U+221A"

\* the mapping of append_token (main.py:29-35)
mapping ==
    (<<Times>> :> <<"*">>) @@ (<<Divide>> :> <<"/">>) @@ (<<"^">> :> <<"*", "*">>)
    @@ (<<PiSign>> :> <<"p", "i">>) @@ (<<RootSign>> :> <<"s", "q", "r", "t", "(">>)

\* (a variant for comparison: the lookup in the mapping left out)
Unmapped(token) == token

\* mapping.get(token, token)
normalized(token) == IF token \in DOMAIN mapping THEN mapping[token] ELSE token

ZeroDivText ==
    <<"C", "a", "n", "n", "o", "t", " ", "d", "i", "v", "i", "d", "e", " ",
      "b", "y", " ", "z", "e", "r", "o">>

InvalidText ==
    <<"I", "n", "v", "a", "l", "i", "d", " ", "e", "x", "p", "r", "e", "s",
      "s", "i", "o", "n">>

\* (a variant for comparison: the empty buffer handed to eval, which raises)
EmptyEvaluated == InvalidText

\* what safe_eval returns on an empty buffer (main.py:62)
EmptyText == <<"0">>

\* the most records the history keeps (main.py:103)
HistoryCap == 20

\* (a variant for comparison: the record made of the result alone)
RecordOfResult(display_expr, display_result) ==
    display_result \o <<" ", "=", " ">> \o display_result

\* f"{display_expr} = {display_result}"
Record(display_expr, display_result) ==
    display_expr \o <<" ", "=", " ">> \o display_result

\* (variants for comparison: no eviction, pop() and pop(1) for pop(0))
KeepAll(h) == h

EvictNewest(h) == IF Len(h) > HistoryCap THEN SubSeq(h, 1, Len(h) - 1) ELSE h

EvictSecond(h) == IF Len(h) > HistoryCap THEN <<Head(h)>> \o Tail(Tail(h)) ELSE h

\* if len(self.history) > 20: self.history.pop(0)
EvictOldest(h) == IF Len(h) > HistoryCap THEN Tail(h) ELSE h

\* (variants for comparison: one except clause catching both kinds)
HandledAsInvalid(o) == InvalidText

HandledAsZeroDivision(o) == ZeroDivText

\* the message safe_eval returns for an exception that eval raised
Handled(o) == IF o.st = "zerodiv" THEN ZeroDivText ELSE InvalidText

\* the last call: the method, what it was called on (the token for
\* append_token, the buffer for safe_eval and toggle_sign), whether an
\* exception left it, and the string it returned (empty for a method that
\* returns None)
Returned(op, on, out) == [op |-> op, on |-> on, raised |-> FALSE, out |-> out]

Raised(op, on) == [op |-> op, on |-> on, raised |-> TRUE, out |-> <<>>]

\* the characters the model knows; float() and eval() are not followed on
\* a text that holds another one
KnownChars ==
    Letters \cup OpChars \cup {Digits[i] : i \in 1..10}
    \cup {" ", "<", ">", "=", "E", Times, Divide, PiSign, RootSign}

\* float(s): the outcome is a value, Err for a ValueError, or Unmod
ParseFloat(s) ==
    LET t == Strip(s)
        neg == At(t, 1) = "-"
        r == IF At(t, 1) \in {"+", "-"} THEN From(t, 2) ELSE t
        p == FloatParts(r)
        sign(o) == IF neg /\ o.st = "val" THEN UnaryOp("-", o.v) ELSE o
    IN  IF \E i \in 1..Len(s) : s[i] \notin KnownChars THEN Unmod
        ELSE IF r \in {<<"i", "n", "f">>, <<"i", "n", "f", "i", "n", "i", "t", "y">>}
             THEN Val(Inf(neg))
        ELSE IF r = <<"n", "a", "n">> THEN Val(NaN)
        ELSE IF ~(IsDigit(At(r, 1)) \/ (At(r, 1) = "." /\ IsDigit(At(r, 2)))) THEN Err
        ELSE IF NumberEnd(r, 1) # Len(r) + 1 THEN Err
        ELSE IF ~p.expOk THEN Unmod
        ELSE sign(ScaledFloat(NatOf(p.ip \o p.fp), p.exp - Len(p.fp)))

\* (a variant for comparison: the value left as it is)
Unnegated(value) == Val(value)

\* value *= -1
Negated(value) ==
    IF IsExact(value) THEN BinOp("*", value, PyInt(-1)) ELSE UnaryOp("-", value)

\* the outcomes of safe_eval for a non-empty buffer
Outcome(raw_expr) == PyEval(Strip(raw_expr))

clear ==
    /\ expression' = <<>>
    /\ ret' = Returned("clear", <<>>, <<>>)
    /\ UNCHANGED <<history, evals, uiVars>>

\* (a variant for comparison: the first character removed)
BackspaceFirst ==
    /\ expression' = IF expression # <<>> THEN Tail(expression) ELSE expression
    /\ ret' = Returned("backspace", <<>>, <<>>)
    /\ UNCHANGED <<history, evals, uiVars>>

backspace ==
    /\ expression' = IF expression # <<>> THEN SubSeq(expression, 1, Len(expression) - 1)
                     ELSE expression
    /\ ret' = Returned("backspace", <<>>, <<>>)
    /\ UNCHANGED <<history, evals, uiVars>>

append_token(token) ==
    /\ expression' = expression \o normalized(token)
    /\ ret' = Returned("append_token", token, <<>>)
    /\ UNCHANGED <<history, evals, uiVars>>

\* the buffer after toggle_sign, value being the outcome of float() on it
Toggled(buffer, value) ==
    IF value.st = "val" THEN Str(Negated(value.v).v)
    ELSE IF StartsWith(buffer, <<"-">>) THEN From(buffer, 2)
    ELSE <<"-">> \o buffer

\* whether the model follows toggle_sign, given the outcome of float()
Follows(value) ==
    /\ value.st # "unmod"
    /\ value.st = "val" => Negated(value.v).st = "val"

toggle_sign ==
    /\ expression # <<>> => Follows(ParseFloat(expression))
    /\ expression' = IF expression = <<>> THEN expression
                     ELSE Toggled(expression, ParseFloat(expression))
    /\ ret' = Returned("toggle_sign", expression, <<>>)
    /\ UNCHANGED <<history, evals, uiVars>>

\* (a variant for comparison: the closing parenthesis left out)
Unclosed ==
    /\ expression' = IF expression = <<>> THEN expression
                     ELSE <<"1", "/", "(">> \o expression
    /\ ret' = Returned("invert", <<>>, <<>>)
    /\ UNCHANGED <<history, evals, uiVars>>

invert ==
    /\ expression' = IF expression = <<>> THEN expression
                     ELSE <<"1", "/", "(">> \o expression \o <<")">>
    /\ ret' = Returned("invert", <<>>, <<>>)
    /\ UNCHANGED <<history, evals, uiVars>>

\* safe_eval on the non-empty buffer raw_expr, result being the outcome of
\* eval (an evaluation that the model does not follow is left out).  The
\* str() of main.py:101 stands outside the try, so that a ValueError it
\* raises leaves safe_eval with nothing changed.
Finish(raw_expr, result) ==
    CASE result.st = "unmod" -> FALSE
      [] result.st \in {"zerodiv", "error", "syntax"} ->
            /\ expression' = <<>>
            /\ ret' = Returned("safe_eval", raw_expr, Handled(result))
            /\ UNCHANGED <<history, evals>>
      [] result.st = "val" /\ StrRaises(result.v) ->
            /\ ret' = Raised("safe_eval", raw_expr)
            /\ UNCHANGED <<expression, history, evals>>
      [] result.st = "val" /\ ~StrRaises(result.v) ->
            /\ history' = EvictOldest(Append(history, Record(raw_expr, Str(result.v))))
            /\ expression' = Str(result.v)
            /\ ret' = Returned("safe_eval", raw_expr, Str(result.v))
            /\ evals' = evals + 1

safe_eval ==
    /\ IF expression = <<>>
       THEN /\ ret' = Returned("safe_eval", expression, EmptyText)
            /\ UNCHANGED <<expression, history, evals>>
       ELSE Finish(expression, Outcome(expression))
    /\ UNCHANGED uiVars

\* (a variant for comparison: the buffer shown as it is, empty or not)
ShowBuffer == expression

\* get_display_value
get_display_value == IF expression # <<>> THEN expression ELSE <<"0">>

(***************************************************************************)
(* The state machine.  A session starts with an empty history, or with the *)
(* history that evaluating the buffers "1", "2", ... in turn and clearing  *)
(* leaves: one record short of the cap, or at the cap.                     *)
(***************************************************************************)
\* the rows of the history list (main.py:559)
ListRows == 8

SeedRecord(i) == Record(DigitsOf(i), DigitsOf(i))

Seeded(n) == [i \in 1..n |-> SeedRecord(i)]

\* (a variant for comparison: the first rows of the history, oldest first)
OldestFirst(h) ==
    [i \in 1..(IF Len(h) > ListRows THEN ListRows ELSE Len(h)) |-> h[i]]

\* reversed(self.logic.history[-8:])
RecentFirst(h) ==
    LET n == IF Len(h) > ListRows THEN ListRows ELSE Len(h)
    IN  [i \in 1..n |-> h[Len(h) + 1 - i]]

(***************************************************************************)
(* CalculatorApp: the handlers of the buttons and of the keyboard          *)
(* (main.py:517-588).  Each action is a whole handler, with the calls of   *)
(* CalculatorLogic it makes; ret keeps the last of those calls.            *)
(***************************************************************************)
\* the two texts the handlers look for in the display
ErrorTexts == {InvalidText, ZeroDivText}

_handle_input(token) ==
    /\ expression' = (IF display_var \in ErrorTexts THEN <<>> ELSE expression)
                     \o normalized(token)
    /\ ret' = Returned("append_token", token, <<>>)
    /\ display_var' = get_display_value'
    /\ UNCHANGED <<history, evals, subdisplay_var, history_listbox>>

\* the labels of the scientific buttons that call invert and append "log("
InvertLabel == <<"1", "/", "x">>

LnLabel == <<"l", "n">>

_handle_scientific_input(token) ==
    /\ IF token = InvertLabel
       THEN /\ expression' = IF expression = <<>> THEN expression
                             ELSE <<"1", "/", "(">> \o expression \o <<")">>
            /\ ret' = Returned("invert", <<>>, <<>>)
       ELSE IF token = LnLabel
       THEN /\ expression' = expression \o normalized(<<"l", "o", "g", "(">>)
            /\ ret' = Returned("append_token", <<"l", "o", "g", "(">>, <<>>)
       ELSE /\ expression' = expression \o normalized(token)
            /\ ret' = Returned("append_token", token, <<>>)
    /\ display_var' = get_display_value'
    /\ UNCHANGED <<history, evals, subdisplay_var, history_listbox>>

_handle_clear ==
    /\ expression' = <<>>
    /\ ret' = Returned("clear", <<>>, <<>>)
    /\ subdisplay_var' = <<>>
    /\ display_var' = <<"0">>
    /\ UNCHANGED <<history, evals, history_listbox>>

_handle_backspace ==
    IF display_var \in ErrorTexts THEN _handle_clear
    ELSE /\ expression' = IF expression # <<>>
                          THEN SubSeq(expression, 1, Len(expression) - 1)
                          ELSE expression
         /\ ret' = Returned("backspace", <<>>, <<>>)
         /\ display_var' = get_display_value'
         /\ UNCHANGED <<history, evals, subdisplay_var, history_listbox>>

\* safe_eval, then the three updates; an exception that leaves safe_eval
\* leaves the handler before them
_handle_equals ==
    /\ IF expression = <<>>
       THEN /\ ret' = Returned("safe_eval", expression, EmptyText)
            /\ UNCHANGED <<expression, history, evals>>
       ELSE Finish(expression, Outcome(expression))
    /\ IF ret'.raised THEN UNCHANGED uiVars
       ELSE /\ subdisplay_var' = get_display_value
            /\ display_var' = ret'.out
            /\ history_listbox' = RecentFirst(history')

_handle_sign_toggle ==
    IF display_var \in ErrorTexts THEN UNCHANGED vars
    ELSE /\ expression # <<>> => Follows(ParseFloat(expression))
         /\ expression' = IF expression = <<>> THEN expression
                          ELSE Toggled(expression, ParseFloat(expression))
         /\ ret' = Returned("toggle_sign", expression, <<>>)
         /\ display_var' = get_display_value'
         /\ UNCHANGED <<history, evals, subdisplay_var, history_listbox>>

\* the characters _on_key_press hands to _handle_input
KeyChars ==
    <<"0", "1", "2", "3", "4", "5", "6", "7", "8", "9", ".", "+", "-", "*", "/",
      "%", "(", ")", "^">>

\* char in text, of two strings: whether char is a substring of text
IsSubstring(char, text) ==
    \E i \in 1..(Len(text) - Len(char) + 1) : SubSeq(text, i, i + Len(char) - 1) = char

\* a key event is [char, keysym]: the character it carries, none for a key
\* such as Shift, and the name of the key
_on_key_press(event) ==
    IF IsSubstring(event.char, KeyChars) THEN _handle_input(event.char)
    ELSE IF event.keysym \in {"Return", "KP_Enter"} THEN _handle_equals
    ELSE IF event.keysym = "BackSpace" THEN _handle_backspace
    ELSE IF event.keysym = "Escape" THEN _handle_clear
    ELSE IF event.char \in {<<"c">>, <<"C">>} THEN _handle_clear
    ELSE UNCHANGED vars

\* a session as it starts, or as the evaluations before left it
Init ==
    /\ expression = <<>>
    /\ history \in {Seeded(0), Seeded(HistoryCap - 1), Seeded(HistoryCap)}
    /\ ret = Returned(IF history = <<>> THEN "__init__" ELSE "clear", <<>>, <<>>)
    /\ evals = 0
    /\ display_var = <<"0">>
    /\ subdisplay_var = <<>>
    /\ history_listbox = RecentFirst(history)

\* the calls a caller makes until maxEvals records have been written:
\* append_token with a token of tokens on a buffer shorter than maxLen,
\* toggle_sign and invert on a buffer shorter than maxEdit
Calls(tokens, maxLen, maxEdit, maxEvals) ==
    \/ evals < maxEvals /\ clear
    \/ evals < maxEvals /\ backspace
    \/ \E token \in tokens :
          evals < maxEvals /\ Len(expression) < maxLen /\ append_token(token)
    \/ evals < maxEvals /\ Len(expression) < maxEdit /\ toggle_sign
    \/ evals < maxEvals /\ Len(expression) < maxEdit /\ invert
    \/ evals < maxEvals /\ safe_eval

\* Spec: arithmetic, with division and modulo by zero
MaxLen == 3

MaxEdit == 2

MaxEvals == 2

Tokens == {<<"2">>, <<"0">>, <<"+">>, <<Divide>>, <<"%">>}

Next == Calls(Tokens, MaxLen, MaxEdit, MaxEvals)

Spec == Init /\ [][Next]_vars

\* SpecNames: names, calls, tuples and a float literal that overflows
NamesLen == 5

NamesEvals == 1

NamesTokens == {<<"s", "i", "n">>, <<"e">>, <<"(">>, <<")">>, <<"9">>, <<",">>}

NextNames == Calls(NamesTokens, NamesLen, MaxEdit, NamesEvals)

SpecNames == Init /\ [][NextNames]_vars

\* SpecPow: powers, up to an int of more digits than str() converts
PowLen == 7

PowTokens == {<<"9">>, <<"^">>}

NextPow == Calls(PowTokens, PowLen, MaxEdit, NamesEvals)

SpecPow == Init /\ [][NextPow]_vars

\* SpecKeys: the five glyphs of the mapping among other tokens
KeysLen == 2

KeysTokens ==
    {<<Times>>, <<Divide>>, <<"^">>, <<PiSign>>, <<RootSign>>, <<"2">>,
     <<"s", "i", "n">>}

NextKeys == Calls(KeysTokens, KeysLen, MaxEdit, NamesEvals)

SpecKeys == Init /\ [][NextKeys]_vars

\* SpecEdit: signs, points and the editing calls on longer buffers
EditLen == 3

EditMax == 6

EditTokens == {<<"4">>, <<"-">>, <<"+">>, <<".">>}

NextEdit == Calls(EditTokens, EditLen, EditMax, NamesEvals)

SpecEdit == Init /\ [][NextEdit]_vars

\* SpecLiteral: number literals, up to one that overflows to inf
LiteralLen == 5

LiteralMax == 9

LiteralTokens == {<<"9">>, <<"e">>, <<".">>}

NextLiteral == Calls(LiteralTokens, LiteralLen, LiteralMax, NamesEvals)

SpecLiteral == Init /\ [][NextLiteral]_vars

\* SpecAgain: the same literals, evaluated and evaluated again
SpecAgain == Init /\ [][Calls(LiteralTokens, LiteralLen, MaxEdit, MaxEvals)]_vars

\* SpecPrec: expressions of a digit, three operators and parentheses, typed
\* into a new calculator and evaluated
PrecLen == 7

PrecTokens == {<<"2">>, <<"+">>, <<Times>>, <<"^">>, <<"(">>, <<")">>}

InitPrec == Init /\ history = <<>>

NextPrec ==
    \/ \E token \in PrecTokens :
          evals < NamesEvals /\ Len(expression) < PrecLen /\ append_token(token)
    \/ evals < NamesEvals /\ safe_eval

SpecPrec == InitPrec /\ [][NextPrec]_vars

\* SpecUI: the buttons and the keys.  A handler that appends is taken on a
\* buffer shorter than UiLen.
UiLen == 2

UiTokens == {<<"2">>, <<"0">>}

UiSciTokens == {InvertLabel, LnLabel}

\* the control characters that the Return, BackSpace and Escape keys carry
CarriageReturn == "U+000D"

BackspaceChar == "U+0008"

EscapeChar == "U+001B"

KeyEvents ==
    {[char |-> <<"^">>, keysym |-> "asciicircum"],
     [char |-> <<"a">>, keysym |-> "a"],
     [char |-> <<"c">>, keysym |-> "c"],
     [char |-> <<>>, keysym |-> "Shift_L"],
     [char |-> <<CarriageReturn>>, keysym |-> "Return"],
     [char |-> <<BackspaceChar>>, keysym |-> "BackSpace"],
     [char |-> <<EscapeChar>>, keysym |-> "Escape"]}

NextUI ==
    \/ \E token \in UiTokens :
          evals < NamesEvals /\ Len(expression) < UiLen /\ _handle_input(token)
    \/ \E token \in UiSciTokens :
          evals < NamesEvals /\ Len(expression) < UiLen /\ _handle_scientific_input(token)
    \/ evals < NamesEvals /\ _handle_clear
    \/ evals < NamesEvals /\ _handle_backspace
    \/ evals < NamesEvals /\ _handle_equals
    \/ evals < NamesEvals /\ Len(expression) < UiLen /\ _handle_sign_toggle
    \/ \E event \in KeyEvents :
          /\ evals < NamesEvals
          /\ IsSubstring(event.char, KeyChars) => Len(expression) < UiLen
          /\ _on_key_press(event)

SpecUI == Init /\ [][NextUI]_vars

(***************************************************************************)
(* Properties.  A step is a call of safe_eval exactly when it leaves       *)
(* ret.op = "safe_eval" (every call records its method); the unprimed      *)
(* variables are the state the call was made in.                           *)
(***************************************************************************)
\* the evaluation of buffer b succeeds: eval returns a value and str()
\* converts it
Succeeds(b) ==
    b # <<>> /\ Outcome(b).st = "val" /\ ~StrRaises(Outcome(b).v)

\* the result string of a buffer whose evaluation succeeds
ResultString(b) == Str(Outcome(b).v)

\* h with the record made of buffer b and result string r after it
WithRecord(h, b, r) == Append(h, b \o <<" ", "=", " ">> \o r)

\* C1: for every non-empty buffer b whose evaluation succeeds with result
\* string r, one call of safe_eval returns r, appends exactly one record,
\* b followed by " = " and r, at the end of history (after at most the
\* oldest record left), and leaves the buffer equal to r.
C1_SuccessRecordsAndSeeds ==
    [][(ret'.op = "safe_eval" /\ Succeeds(expression)) =>
          /\ ~ret'.raised
          /\ ret'.out = ResultString(expression)
          /\ expression' = ResultString(expression)
          /\ \/ history' = WithRecord(history, expression, ResultString(expression))
             \/ /\ history # <<>>
                /\ history' = WithRecord(Tail(history), expression, ResultString(expression))
      ]_vars

\* "2+2" was evaluated: "4" returned, the buffer "4", the last record "2+2 = 4"
C1_Witness ==
    /\ ret = Returned("safe_eval", <<"2", "+", "2">>, <<"4">>)
    /\ expression = <<"4">>
    /\ history # <<>>
    /\ history[Len(history)] = <<"2", "+", "2", " ", "=", " ", "4">>

\* C2: for every non-empty buffer whose evaluation hits a zero denominator
\* (division or modulo by zero, also in a buffer that invert made of one
\* that evaluates to zero), safe_eval returns "Cannot divide by zero",
\* the buffer becomes empty and history is what it was.
C2_ZeroDivision ==
    [][(ret'.op = "safe_eval" /\ expression # <<>> /\ Outcome(expression).st = "zerodiv") =>
          /\ ~ret'.raised
          /\ ret'.out = <<"C", "a", "n", "n", "o", "t", " ", "d", "i", "v", "i", "d", "e",
                          " ", "b", "y", " ", "z", "e", "r", "o">>
          /\ expression' = <<>>
          /\ history' = history
      ]_vars

\* the buffer "1/(0)", which invert makes of "0", was evaluated with records
\* in the history
C2_Witness ==
    /\ ret = Returned("safe_eval", <<"1", "/", "(", "0", ")">>, ZeroDivText)
    /\ expression = <<>>
    /\ history # <<>>

\* C3: for every non-empty buffer that is malformed, names something
\* outside the namespace or calls a function with the wrong number of
\* arguments (every buffer on which eval raises something other than a
\* ZeroDivisionError), safe_eval returns "Invalid expression", the buffer
\* becomes empty and history is what it was.
C3_InvalidExpression ==
    [][(/\ ret'.op = "safe_eval"
        /\ expression # <<>>
        /\ Outcome(expression).st \in {"syntax", "error"}) =>
          /\ ~ret'.raised
          /\ ret'.out = <<"I", "n", "v", "a", "l", "i", "d", " ", "e", "x", "p", "r", "e",
                          "s", "s", "i", "o", "n">>
          /\ expression' = <<>>
          /\ history' = history
      ]_vars

\* "sin()", a call with too few arguments, was evaluated with records in the
\* history
C3_Witness ==
    /\ ret = Returned("safe_eval", <<"s", "i", "n", "(", ")">>, InvalidText)
    /\ expression = <<>>
    /\ history # <<>>

\* C4: on an empty buffer safe_eval returns "0" and changes neither the
\* buffer nor history, whatever history holds.
C4_EmptyBuffer ==
    [][(ret'.op = "safe_eval" /\ expression = <<>>) =>
          /\ ~ret'.raised
          /\ ret'.out = <<"0">>
          /\ expression' = <<>>
          /\ history' = history
      ]_vars

\* safe_eval was called on an empty buffer with a full history
C4_Witness ==
    /\ ret = Returned("safe_eval", <<>>, <<"0">>)
    /\ expression = <<>>
    /\ Len(history) = 20

\* C5: every call of safe_eval on a non-empty buffer returns to its caller,
\* with one of three outcomes: a result string with the buffer set to it,
\* "Cannot divide by zero" with the buffer empty, or "Invalid expression"
\* with the buffer empty.
C5_AlwaysReturns ==
    [][(ret'.op = "safe_eval" /\ expression # <<>>) =>
          /\ ~ret'.raised
          /\ \/ ret'.out # <<>> /\ expression' = ret'.out
             \/ ret'.out = ZeroDivText /\ expression' = <<>>
             \/ ret'.out = InvalidText /\ expression' = <<>>
      ]_vars

\* safe_eval was left by an exception
C5_Escaped == ret.op = "safe_eval" /\ ret.raised

\* C6: the history never holds more than 20 records.
C6_HistoryBounded == Len(history) <= 20

\* a record was written to a history that held 20 already
C6_Witness ==
    /\ ret.op = "safe_eval"
    /\ Len(history) = 20
    /\ history[1] = SeedRecord(2)
    /\ history[20] = ret.on \o <<" ", "=", " ">> \o ret.out

\* C7: when history holds 20 records and an evaluation succeeds, history
\* afterwards is the 2nd to the 20th of them, in their order, and the new
\* record last; when it holds fewer, nothing is removed.
C7_OldestEvicted ==
    [][(ret'.op = "safe_eval" /\ Succeeds(expression)) =>
          IF Len(history) = 20
          THEN /\ Len(history') = 20
               /\ \A i \in 1..19 : history'[i] = history[i + 1]
               /\ history'[20] = expression \o <<" ", "=", " ">> \o ResultString(expression)
          ELSE /\ Len(history') = Len(history) + 1
               /\ \A i \in 1..Len(history) : history'[i] = history[i]
      ]_vars

\* two records were written to a history of 19: the second evicted the oldest
C7_Witness ==
    /\ ret.op = "safe_eval"
    /\ evals = 2
    /\ Len(history) = 20
    /\ history[1] = SeedRecord(2)
    /\ history[18] = SeedRecord(19)
    /\ history[20] = ret.on \o <<" ", "=", " ">> \o ret.out

\* a value that is not a finite real number
NotFiniteReal(v) == v.t \in {"func", "tuple", "inf", "nan"}

\* C8: when the evaluation of a non-empty buffer gives a value that is not
\* a finite real number (a function, a tuple, an infinity, a NaN),
\* safe_eval returns "Invalid expression", the buffer becomes empty and no
\* record is written.
C8_NonNumericRejected ==
    [][(/\ ret'.op = "safe_eval"
        /\ expression # <<>>
        /\ Outcome(expression).st = "val"
        /\ NotFiniteReal(Outcome(expression).v)) =>
          /\ ret'.out = InvalidText
          /\ expression' = <<>>
          /\ history' = history
      ]_vars

\* the buffer "sin" was evaluated and the text of the function recorded
C8_Recorded ==
    /\ ret.op = "safe_eval"
    /\ ret.on = <<"s", "i", "n">>
    /\ ret.out = FuncPrefix \o <<"s", "i", "n", ">">>
    /\ expression = ret.out
    /\ history # <<>>
    /\ history[Len(history)] = ret.on \o <<" ", "=", " ">> \o ret.out

\* C9: only a successful safe_eval writes history: every other call, a
\* failing safe_eval and one on an empty buffer leave it as it was, and a
\* step that changes it removes at most the oldest record and adds one
\* record at the end.
C9_OnlyEvaluationWrites ==
    [][/\ ret'.op # "safe_eval" => history' = history
       /\ (ret'.op = "safe_eval" /\ ~Succeeds(expression)) => history' = history
       /\ history' # history =>
             /\ history' # <<>>
             /\ \/ SubSeq(history', 1, Len(history') - 1) = history
                \/ history # <<>> /\ SubSeq(history', 1, Len(history') - 1) = Tail(history)
      ]_vars

\* after a record was written, invert left the history as it was
C9_Witness ==
    /\ ret.op = "invert"
    /\ evals = 1
    /\ Len(history) = 20
    /\ expression # <<>>

\* the text append_token appends for a token
Canonical(token) ==
    CASE token = <<Times>> -> <<"*">>
      [] token = <<Divide>> -> <<"/">>
      [] token = <<"^">> -> <<"*", "*">>
      [] token = <<PiSign>> -> <<"p", "i">>
      [] token = <<RootSign>> -> <<"s", "q", "r", "t", "(">>
      [] OTHER -> token

\* C10: append_token puts the canonical form of a glyph token, and any
\* other token itself, after the buffer, which stays as a prefix, and
\* leaves history alone.
C10_AppendCanonical ==
    [][ret'.op = "append_token" =>
          /\ expression' = expression \o Canonical(ret'.on)
          /\ history' = history
      ]_vars

\* the root glyph was appended after "2"
C10_Witness ==
    /\ ret = Returned("append_token", <<RootSign>>, <<>>)
    /\ expression = <<"2", "s", "q", "r", "t", "(">>


\* w is the float that v times -1 gives
IsNegation(w, v) ==
    CASE v.t = "nan" -> w.t = "nan"
      [] v.t = "inf" -> w.t = "inf" /\ w.neg # v.neg
      [] OTHER -> /\ w.t = "float"
                  /\ w.n = -v.n
                  /\ w.d = v.d
                  /\ v.n = 0 => w.nz # v.nz

\* C11: toggle_sign leaves an empty buffer empty; a buffer that float()
\* parses it replaces by the string of the negated value (the text str()
\* gives the float whose value is minus the buffer's); from any other
\* buffer it removes one leading "-", or prepends one when there is none,
\* and leaves the rest of the text as it is.
C11_ToggleSign ==
    [][ret'.op = "toggle_sign" =>
          IF expression = <<>> THEN expression' = <<>>
          ELSE IF ParseFloat(expression).st = "val"
          THEN /\ ParseFloat(expression').st = "val"
               /\ IsNegation(ParseFloat(expression').v, ParseFloat(expression).v)
               /\ expression' = Str(ParseFloat(expression').v)
          ELSE IF expression[1] = "-"
          THEN expression' = Tail(expression)
          ELSE expression' = <<"-">> \o expression
      ]_vars

\* toggle_sign was called on "4" and left "-4.0"
C11_Witness ==
    /\ ret = Returned("toggle_sign", <<"4">>, <<>>)
    /\ expression = <<"-", "4", ".", "0">>


\* the buffer b is one number literal that eval gives a value
PureLiteral(b) ==
    /\ Len(Lex(b, 1)) = 1
    /\ Lex(b, 1)[1] = [k |-> "num", s |-> b]
    /\ Literal(b).st = "val"

\* the numbers v and w are equal
SameValue(v, w) ==
    CASE IsExact(v) /\ IsExact(w) -> v.n * Den(w) = w.n * Den(v)
      [] v.t = "inf" /\ w.t = "inf" -> v.neg = w.neg
      [] OTHER -> FALSE

\* C12: when toggle_sign is called twice in a row on a buffer that is a
\* number literal, the buffer left is a number literal again, of the same
\* value as the first.
C12_DoubleToggleKeepsValue ==
    [][(ret.op = "toggle_sign" /\ ret'.op = "toggle_sign" /\ PureLiteral(ret.on)) =>
          /\ PureLiteral(expression')
          /\ SameValue(Literal(expression').v, Literal(ret.on).v)
      ]_vars

\* two calls of toggle_sign left the buffer "inf", which is a name
C12_LeftName ==
    /\ ret = Returned("toggle_sign", <<"-", "i", "n", "f">>, <<>>)
    /\ expression = <<"i", "n", "f">>
    /\ ~PureLiteral(expression)

\* the same of the literals that do not overflow
C12_FiniteLiterals ==
    [][(/\ ret.op = "toggle_sign"
        /\ ret'.op = "toggle_sign"
        /\ PureLiteral(ret.on)
        /\ IsExact(Literal(ret.on).v)) =>
          /\ PureLiteral(expression')
          /\ SameValue(Literal(expression').v, Literal(ret.on).v)
      ]_vars


\* the text that invert wrapped, when buffer is what invert left
Wrapped(buffer) == SubSeq(buffer, 4, Len(buffer) - 1)

\* the string r is the text of the float 1/v
IsReciprocal(r, v) ==
    /\ ParseFloat(r).st = "val"
    /\ IsExact(ParseFloat(r).v)
    /\ ParseFloat(r).v.n * v.n = ParseFloat(r).v.d * Den(v)
    /\ r = Str(ParseFloat(r).v)

\* C13: invert leaves an empty buffer empty and makes "1/(" b ")" of a
\* non-empty buffer b; when b evaluates to a number v other than zero, a
\* safe_eval right after the invert returns the reciprocal of v and
\* appends the record "1/(" b ") = " and the result.
C13_Invert ==
    [][/\ ret'.op = "invert" =>
             expression' = IF expression = <<>> THEN <<>>
                           ELSE <<"1", "/", "(">> \o expression \o <<")">>
       /\ (/\ ret.op = "invert"
           /\ ret'.op = "safe_eval"
           /\ expression # <<>>
           /\ Outcome(Wrapped(expression)).st = "val"
           /\ IsExact(Outcome(Wrapped(expression)).v)
           /\ ~IsZero(Outcome(Wrapped(expression)).v)) =>
             /\ ~ret'.raised
             /\ IsReciprocal(ret'.out, Outcome(Wrapped(expression)).v)
             /\ expression' = ret'.out
             /\ history' # <<>>
             /\ history'[Len(history')] = expression \o <<" ", "=", " ">> \o ret'.out
      ]_vars

\* "4" was inverted and evaluated: "0.25", with the record "1/(4) = 0.25"
C13_Witness ==
    /\ ret = Returned("safe_eval", <<"1", "/", "(", "4", ")">>, <<"0", ".", "2", "5">>)
    /\ expression = <<"0", ".", "2", "5">>
    /\ history # <<>>
    /\ history[Len(history)] =
          <<"1", "/", "(", "4", ")", " ", "=", " ", "0", ".", "2", "5">>


\* C14: backspace makes of a non-empty buffer its prefix one character
\* shorter, leaves an empty buffer empty and returns in both cases; history
\* stays as it is.
C14_Backspace ==
    [][ret'.op = "backspace" =>
          /\ ~ret'.raised
          /\ IF expression = <<>> THEN expression' = <<>>
             ELSE /\ Len(expression') = Len(expression) - 1
                  /\ \A i \in 1..Len(expression') : expression'[i] = expression[i]
          /\ history' = history
      ]_vars

\* backspace left "4+" of a longer buffer, with records in the history
C14_Witness ==
    /\ ret.op = "backspace"
    /\ expression = <<"4", "+">>
    /\ Len(history) = 20


\* how tightly a binary operator binds
Binds(op) ==
    CASE op = "**" -> 3
      [] op \in {"*", "/", "%"} -> 2
      [] op \in {"+", "-"} -> 1

BinaryOperators == {"+", "-", "*", "/", "%", "**"}

\* whether the tokens ts from position i on are: operand, operator, operand
IsPair(ts, i) ==
    /\ ts[i].k = "num"
    /\ ts[i + 1].k \in BinaryOperators
    /\ ts[i + 2].k = "num"

\* the value of the pair at position i
PairValue(ts, i) == Binary(ts[i + 1].k, Literal(ts[i].s), Literal(ts[i + 2].s))

NoValue == [st |-> "none"]

\* the value that arithmetic precedence gives the tokens ts, for the
\* expressions of two or three operands with at most one pair of
\* parentheses; NoValue for every other text
ByPrecedence(ts) ==
    CASE Len(ts) = 3 /\ IsPair(ts, 1) -> PairValue(ts, 1)
      [] Len(ts) = 5 /\ IsPair(ts, 1) /\ IsPair(ts, 3) ->
            IF \/ Binds(ts[4].k) > Binds(ts[2].k)
               \/ ts[2].k = "**" /\ ts[4].k = "**"
            THEN Binary(ts[2].k, Literal(ts[1].s), PairValue(ts, 3))
            ELSE Binary(ts[4].k, PairValue(ts, 1), Literal(ts[5].s))
      [] /\ Len(ts) = 7
         /\ ts[1].k = "(" /\ IsPair(ts, 2) /\ ts[5].k = ")"
         /\ ts[6].k \in BinaryOperators /\ ts[7].k = "num" ->
            Binary(ts[6].k, PairValue(ts, 2), Literal(ts[7].s))
      [] /\ Len(ts) = 7
         /\ ts[1].k = "num" /\ ts[2].k \in BinaryOperators
         /\ ts[3].k = "(" /\ IsPair(ts, 4) /\ ts[7].k = ")" ->
            Binary(ts[2].k, Literal(ts[1].s), PairValue(ts, 4))
      [] OTHER -> NoValue

\* C15: a buffer typed as digits and operators (the caret being the power
\* operator) that is an expression of two or three operands evaluates to
\* the value arithmetic precedence gives it: "**" before "*", "/" and "%",
\* these before "+" and "-", and what stands in parentheses first.
C15_Precedence ==
    [][(/\ ret'.op = "safe_eval"
        /\ ByPrecedence(Lex(expression, 1)).st = "val"
        /\ ~StrRaises(ByPrecedence(Lex(expression, 1)).v)) =>
          /\ ~ret'.raised
          /\ ret'.out = Str(ByPrecedence(Lex(expression, 1)).v)
      ]_vars

\* "(2+2)*2" was evaluated to "8", where "2+2*2" is 6
C15_Witness ==
    /\ ret = Returned("safe_eval", <<"(", "2", "+", "2", ")", "*", "2">>, <<"8">>)
    /\ expression = <<"8">>

\* three more expressions that precedence decides, as they were evaluated
C15_Examples ==
    /\ (ret.op = "safe_eval" /\ ret.on = <<"2", "+", "2", "*", "2">>) => ret.out = <<"6">>
    /\ (ret.op = "safe_eval" /\ ret.on = <<"2", "*", "2", "*", "*", "2">>) => ret.out = <<"8">>
    /\ (ret.op = "safe_eval" /\ ret.on = <<"2", "*", "*", "2", "+", "2">>) => ret.out = <<"6">>
    /\ (ret.op = "safe_eval" /\ ret.on = <<"2", "*", "(", "2", "+", "2", ")">>) => ret.out = <<"8">>


\* the display shows the buffer ("0" for an empty one), or it shows one of
\* the two messages and the buffer is empty
DisplayAgrees ==
    \/ display_var = (IF expression = <<>> THEN <<"0">> ELSE expression)
    \/ /\ expression = <<>>
       /\ \/ display_var = <<"I", "n", "v", "a", "l", "i", "d", " ", "e", "x", "p", "r",
                             "e", "s", "s", "i", "o", "n">>
          \/ display_var = <<"C", "a", "n", "n", "o", "t", " ", "d", "i", "v", "i", "d",
                             "e", " ", "b", "y", " ", "z", "e", "r", "o">>

\* C16: before and after every step of the handlers the display and the
\* buffer agree (so that no message is shown over a non-empty buffer), and
\* a token appended while a message is shown leaves the buffer made of
\* that token's canonical form alone.
C16_DisplayAgrees ==
    [][/\ DisplayAgrees
       /\ DisplayAgrees'
       /\ (display_var \in {InvalidText, ZeroDivText} /\ ret'.op = "append_token") =>
             expression' = Canonical(ret'.on)
      ]_vars

\* the equals button on "1/(0)" left the message over an empty buffer
C16_Witness ==
    /\ display_var = ZeroDivText
    /\ subdisplay_var = <<"1", "/", "(", "0", ")">>
    /\ expression = <<>>
    /\ ret.op = "safe_eval"

\* a token was appended after a message: the buffer is that token
C16_FreshBuffer ==
    /\ subdisplay_var = <<"1", "/", "(", "0", ")">>
    /\ ret = Returned("append_token", <<"2">>, <<>>)
    /\ expression = <<"2">>
    /\ display_var = <<"2">>


\* C17: after every equals action the history view has min(8, length of the
\* history) rows, and its i-th row is the i-th record of the history counted
\* from the end: the last records, the most recent first, and nothing else.
C17_HistoryView ==
    [][ret'.op = "safe_eval" =>
          /\ Len(history_listbox') = (IF Len(history') < 8 THEN Len(history') ELSE 8)
          /\ \A i \in 1..Len(history_listbox') :
                history_listbox'[i] = history'[Len(history') + 1 - i]
      ]_vars

\* the equals button wrote a record into a full history: the view has 8 rows,
\* from the new record down to the 13th of the 20
C17_Witness ==
    /\ ret.op = "safe_eval"
    /\ evals = 1
    /\ Len(history) = 20
    /\ Len(history_listbox) = 8
    /\ history_listbox[1] = history[20]
    /\ history_listbox[8] = history[13]

\* the equals button wrote the first record: the view has that one row
C17_FirstRecord ==
    /\ ret.op = "safe_eval"
    /\ Len(history) = 1
    /\ history_listbox = history


\* C18: the buffer never holds one of the five glyphs (the multiplication
\* sign, the division sign, the caret, the pi symbol, the root symbol),
\* whatever was appended, edited or evaluated.
C18_NoGlyphInBuffer ==
    \A i \in 1..Len(expression) :
       expression[i] \notin {"U+00D7", "U+00F7", "^", "U+03C0", "U+221A"}

\* the pi glyph was appended and evaluated: the buffer is the result string
C18_Witness ==
    /\ ret.op = "safe_eval"
    /\ ret.on = <<"p", "i">>
    /\ evals = 1
    /\ expression = ret.out

\* the caret was appended after the multiplication glyph: the buffer is "***"
C18_Canonical ==
    /\ ret = Returned("append_token", <<"^">>, <<>>)
    /\ expression = <<"*", "*", "*">>


\* the characters that _on_key_press is meant to bind
BoundChars ==
    {"0", "1", "2", "3", "4", "5", "6", "7", "8", "9", ".", "+", "-", "*", "/",
     "%", "(", ")", "^", "c", "C"}

\* a key event that is bound to no action: its character is none of the
\* bound ones and its key none of Return, KP_Enter, BackSpace, Escape
Unbound(event) ==
    /\ \A ch \in BoundChars : event.char # <<ch>>
    /\ event.keysym \notin {"Return", "KP_Enter", "BackSpace", "Escape"}

\* C19: a press of a key that is bound to no action, a key without a
\* character included, leaves the buffer, the history and the main display
\* as they were, in every state.
C19_UnboundKeyIgnored ==
    [][\A event \in KeyEvents :
          (Unbound(event) /\ _on_key_press(event)) =>
             UNCHANGED <<expression, history, display_var>>
      ]_vars

\* a key without a character was pressed over the message of "1/(0)": the
\* display went from the message to "0"
C19_MessageLost ==
    /\ ret = Returned("append_token", <<>>, <<>>)
    /\ subdisplay_var = <<"1", "/", "(", "0", ")">>
    /\ display_var = <<"0">>
    /\ expression = <<>>

\* while no message is displayed such a key press changes nothing but the
\* record of the last call
C19_IgnoredOutsideMessage ==
    [][\A event \in KeyEvents :
          (Unbound(event) /\ display_var \notin ErrorTexts /\ _on_key_press(event)) =>
             UNCHANGED <<expression, history, evals, display_var, subdisplay_var,
                         history_listbox>>
      ]_vars

\* a key with a character that is not bound changes nothing in any state
C19_LetterIgnored ==
    [][\A event \in KeyEvents :
          (Unbound(event) /\ event.char # <<>> /\ _on_key_press(event)) =>
             UNCHANGED vars
      ]_vars


\* C20: when toggle_sign is called twice in a row on a non-empty buffer that
\* float() does not take for a number, the buffer left is the first one.
C20_DoubleToggleRestores ==
    [][(/\ ret.op = "toggle_sign"
        /\ ret'.op = "toggle_sign"
        /\ ret.on # <<>>
        /\ ParseFloat(ret.on).st # "val") =>
          expression' = ret.on
      ]_vars

\* toggle_sign on "--4" left "-4", a number, from which the next call
\* gives "4.0"
C20_SignDropped ==
    /\ ret = Returned("toggle_sign", <<"-", "-", "4">>, <<>>)
    /\ expression = <<"-", "4">>

\* toggle_sign on "-" left the empty buffer, which the next call leaves empty
C20_MinusLost ==
    /\ ret = Returned("toggle_sign", <<"-">>, <<>>)
    /\ expression = <<>>

\* the same of the buffers that are not a "-" alone, before a number or
\* before another "-"
C20_RestoresOtherwise ==
    [][(/\ ret.op = "toggle_sign"
        /\ ret'.op = "toggle_sign"
        /\ ret.on # <<>>
        /\ ParseFloat(ret.on).st # "val"
        /\ ~(/\ ret.on[1] = "-"
             /\ \/ Len(ret.on) = 1
                \/ ParseFloat(Tail(ret.on)).st = "val"
                \/ ret.on[2] = "-")) =>
          expression' = ret.on
      ]_vars

\* toggle_sign was called twice on "4+4": "-4+4", then "4+4" again
C20_Restored ==
    /\ ret = Returned("toggle_sign", <<"-", "4", "+", "4">>, <<>>)
    /\ expression = <<"4", "+", "4">>


\* the last call was a successful evaluation: safe_eval returned, on a
\* buffer that was not empty, a string that is none of the two messages
Succeeded(call) ==
    /\ call.op = "safe_eval"
    /\ ~call.raised
    /\ call.on # <<>>
    /\ call.out \notin {InvalidText, ZeroDivText}

\* C21: when safe_eval is called right after a successful safe_eval that
\* returned r, it returns r again (and none of the two messages), leaves
\* the buffer equal to r and appends the record "r = r".
C21_EvaluatesAgain ==
    [][(Succeeded(ret) /\ ret'.op = "safe_eval") =>
          /\ ~ret'.raised
          /\ ret'.out = ret.out
          /\ expression' = ret.out
          /\ history' # <<>>
          /\ history'[Len(history')] = ret.out \o <<" ", "=", " ">> \o ret.out
          /\ Len(history') = (IF Len(history) < 20 THEN Len(history) + 1 ELSE 20)
      ]_vars

\* "inf", the result of "9e999", was evaluated: the message was returned
\* and the buffer is empty
C21_InfRejected ==
    /\ ret = Returned("safe_eval", <<"i", "n", "f">>, InvalidText)
    /\ expression = <<>>
    /\ evals = 1
    /\ history # <<>>
    /\ history[Len(history)] = <<"9", "e", "9", "9", "9", " ", "=", " ", "i", "n", "f">>

\* the same of the results that are finite numbers
C21_NumbersAgain ==
    [][(/\ Succeeded(ret)
        /\ ret'.op = "safe_eval"
        /\ Outcome(ret.on).v.t \notin {"func", "tuple", "inf", "nan"}) =>
          /\ ~ret'.raised
          /\ ret'.out = ret.out
          /\ expression' = ret.out
          /\ history' # <<>>
          /\ history'[Len(history')] = ret.out \o <<" ", "=", " ">> \o ret.out
          /\ Len(history') = (IF Len(history) < 20 THEN Len(history) + 1 ELSE 20)
      ]_vars

\* "9.0", the result of "9.", was evaluated again and recorded
C21_Again ==
    /\ ret = Returned("safe_eval", <<"9", ".", "0">>, <<"9", ".", "0">>)
    /\ evals = 2
    /\ expression = <<"9", ".", "0">>
    /\ history[Len(history)] = <<"9", ".", "0", " ", "=", " ", "9", ".", "0">>
    /\ history[Len(history) - 1] = <<"9", ".", " ", "=", " ", "9", ".", "0">>

=============================================================================
